---- MODULE Spec2Model ----
(***************************************************************************)
(* BlockMask and its conversions, torch/nn/attention/_flex_attention.py:   *)
(* dense mask -> tile grids -> compressed block-sparse index structure,    *)
(* and the derived queries (shape, numel, sparsity, to_dense, indexing).   *)
(*                                                                         *)
(* A tensor is a record [shape, data]: shape is the sequence of extents,   *)
(* data the elements in row-major order.  Indices are 0-based as in the    *)
(* source; sequences are 1-based as in TLA+.                               *)
(***************************************************************************)
EXTENDS Integers, Sequences, FiniteSets, TLC

\* ----------------------------------------------------------------- bounds
\* Largest number B*H of (batch, head) planes of a build.
MaxPlanes == 2
\* Largest number of elements M*N of one (query, key) plane of a build.
MaxCells == 4
\* Largest number of elements Q_BLOCK_SIZE*KV_BLOCK_SIZE of a block of a build
\* besides the default one.
MaxBlk == 2
\* Largest rank of an array handed directly to the constructor.
MaxRank == 3
\* Largest query/key length of the default "no mask" BlockMask.
MaxSeq == 3
\* Largest number of parameters without a default of a caller's function.
MaxParams == 6

_DEFAULT_SPARSE_BLOCK_SIZE == 128

\* ---------------------------------------------------------------- tensors
RECURSIVE Prod(_)
Prod(s) == IF s = <<>> THEN 1 ELSE Head(s) * Prod(Tail(s))

RECURSIVE SumSeq(_)
SumSeq(s) == IF s = <<>> THEN 0 ELSE Head(s) + SumSeq(Tail(s))

\* Row-major offset of the 0-based multi-index idx in a tensor of that shape.
RECURSIVE Offset(_, _)
Offset(shape, idx) ==
    IF shape = <<>> THEN 0
    ELSE Head(idx) * Prod(Tail(shape)) + Offset(Tail(shape), Tail(idx))

\* The 0-based multi-index at row-major offset k.
RECURSIVE Unravel(_, _)
Unravel(shape, k) ==
    IF shape = <<>> THEN <<>>
    ELSE <<k \div Prod(Tail(shape))>> \o Unravel(Tail(shape), k % Prod(Tail(shape)))

At(t, idx) == t.data[Offset(t.shape, idx) + 1]

Dim(t) == Len(t.shape)

\* torch.zeros(shape), torch.ones(shape)
Zeros(shape) == [shape |-> shape, data |-> [k \in 1..Prod(shape) |-> 0]]
Ones(shape) == [shape |-> shape, data |-> [k \in 1..Prod(shape) |-> 1]]

\* t.sum()
SumAll(t) == SumSeq(t.data)

Without(s, d) == SubSeq(s, 1, d) \o SubSeq(s, d + 2, Len(s))
Insert(s, d, v) == SubSeq(s, 1, d) \o <<v>> \o SubSeq(s, d + 1, Len(s))
Replace(s, d, v) == [s EXCEPT ![d + 1] = v]

\* t.sum(dim=d)
SumDim(t, d) ==
    LET shape == Without(t.shape, d)
    IN  [shape |-> shape,
         data |-> [k \in 1..Prod(shape) |->
                    LET idx == Unravel(shape, k - 1)
                    IN  SumSeq([j \in 1..t.shape[d + 1] |-> At(t, Insert(idx, d, j - 1))])]]

\* The lane of t along dim d through idx, as a sequence.
Lane(t, d, idx) == [j \in 1..t.shape[d + 1] |-> At(t, Replace(idx, d, j - 1))]

\* A descending argsort that is not stable: equal entries come out in
\* reverse order.
ArgsortDescendingTiesReversed(row) ==
    [p \in 1..Len(row) |->
        (CHOOSE j \in 1..Len(row) :
            Cardinality({k \in 1..Len(row) :
                row[k] > row[j] \/ (row[k] = row[j] /\ k > j)}) = p - 1) - 1]

\* torch.argsort(row, descending=True, stable=True): position p (1-based) holds
\* the 0-based index j that exactly p-1 entries precede, an entry k preceding j
\* when it is larger, or equal and earlier.
StableArgsortDescending(row) ==
    [p \in 1..Len(row) |->
        (CHOOSE j \in 1..Len(row) :
            Cardinality({k \in 1..Len(row) :
                row[k] > row[j] \/ (row[k] = row[j] /\ k < j)}) = p - 1) - 1]

\* torch.argsort(t, dim=d, descending=True, stable=True)
ArgsortDim(t, d) ==
    [shape |-> t.shape,
     data |-> [k \in 1..Prod(t.shape) |->
                LET idx == Unravel(t.shape, k - 1)
                IN  StableArgsortDescending(Lane(t, d, idx))[idx[d + 1] + 1]]]

\* t.permute(0, 1, 3, 2) of a rank-4 tensor
Permute0132(t) ==
    LET shape == <<t.shape[1], t.shape[2], t.shape[4], t.shape[3]>>
    IN  [shape |-> shape,
         data |-> [k \in 1..Prod(shape) |->
                    LET idx == Unravel(shape, k - 1)
                    IN  At(t, <<idx[1], idx[2], idx[4], idx[3]>>)]]

\* x[index] for an integer index: defined when x has a leading axis and the
\* index, negative ones counted from the end, falls inside it.
CanIndex(t, i) == Dim(t) >= 1 /\ i >= 0 - t.shape[1] /\ i < t.shape[1]

IndexTensor(t, i) ==
    LET n == IF i < 0 THEN i + t.shape[1] ELSE i
        stride == Prod(Tail(t.shape))
    IN  [shape |-> Tail(t.shape),
         data |-> SubSeq(t.data, n * stride + 1, (n + 1) * stride)]

\* -------------------------------------------------- the caller's function
\* None, for an absent tensor, function or BlockMask.
None == [none |-> TRUE]

\* A caller's function: nreq parameters without a default, nopt with one, and
\* the value it yields at (b, h, q, kv): true exactly on the (q, kv) pairs of
\* cells (kind "cells"), everywhere ("all", as _no_mask), nowhere ("none"), or
\* where q >= kv ("causal", as _causal); with flip, negated where b + h is odd.
\* A score-modifying function yields -inf where a predicate yields false.
FnValue(fn, b, h, q, kv) ==
    LET base == CASE fn.kind = "cells" -> <<q, kv>> \in fn.cells
                  [] fn.kind = "all" -> TRUE
                  [] fn.kind = "none" -> FALSE
                  [] fn.kind = "causal" -> q >= kv
    IN  IF fn.flip /\ (b + h) % 2 = 1 THEN ~base ELSE base

\* Python's call fn(*args) with nargs positional arguments binds.
CallBinds(fn, nargs) == fn.nreq <= nargs /\ nargs <= fn.nreq + fn.nopt

\* sum(1 for param in signature(fn).parameters.values() if param.default == empty) == 5
IsScoreMod(fn) == fn.nreq = 5

\* A dense mask of shape (B, H, M, N): its element at <<b, h, m, n>> is
\* at[<<b, h, m, n>>].
DenseDomain(B, H, M, N) == (0..(B - 1)) \X (0..(H - 1)) \X (0..(M - 1)) \X (0..(N - 1))

\* torch.where(torch.isneginf(out), False, True) of score_mod vmapped over
\* (b, h, m, n).
_create_mask_from_score_mod(score_mod, B, H, M, N) ==
    [shape |-> <<B, H, M, N>>,
     at |-> [i \in DenseDomain(B, H, M, N) |-> FnValue(score_mod, i[1], i[2], i[3], i[4])]]

\* mask_fn vmapped over (b, h, m, n).
_create_mask_from_mask_fn(mask_fn, B, H, M, N) ==
    [shape |-> <<B, H, M, N>>,
     at |-> [i \in DenseDomain(B, H, M, N) |-> FnValue(mask_fn, i[1], i[2], i[3], i[4])]]

\* ------------------------------------------------------- block aggregator
\* mask.view(B, H, Q//Qb, Qb, KV//KVb, KVb).permute(0, 1, 2, 4, 3, 5).sum(dim=[-2, -1])
MaskBlockSum(mask, KV_BLOCK_SIZE, Q_BLOCK_SIZE) ==
    LET shape == <<mask.shape[1], mask.shape[2],
                   mask.shape[3] \div Q_BLOCK_SIZE, mask.shape[4] \div KV_BLOCK_SIZE>>
    IN  [shape |-> shape,
         data |-> [k \in 1..Prod(shape) |->
                    LET idx == Unravel(shape, k - 1)
                    IN  Cardinality(
                          {e \in (0..(Q_BLOCK_SIZE - 1)) \X (0..(KV_BLOCK_SIZE - 1)) :
                              mask.at[<<idx[1], idx[2], idx[3] * Q_BLOCK_SIZE + e[1],
                                        idx[4] * KV_BLOCK_SIZE + e[2]>>]})]]

\* Only the query extent asserted.
ConvertAssertsQueryOnly(Q, KV, KV_BLOCK_SIZE, Q_BLOCK_SIZE) ==
    Q % Q_BLOCK_SIZE = 0

\* The two asserts on the extents.
ConvertAsserts(Q, KV, KV_BLOCK_SIZE, Q_BLOCK_SIZE) ==
    Q % Q_BLOCK_SIZE = 0 /\ KV % KV_BLOCK_SIZE = 0

\* A full class that takes in every block with a true element, whether a
\* predicate is at hand or not.
FullBlocksAnyTrue(mask_block_sum, KV_BLOCK_SIZE, Q_BLOCK_SIZE, has_mask_fn) ==
    [shape |-> mask_block_sum.shape,
     data |-> [k \in 1..Len(mask_block_sum.data) |->
                IF mask_block_sum.data[k] > 0 THEN 1 ELSE 0]]

FullBlocks(mask_block_sum, KV_BLOCK_SIZE, Q_BLOCK_SIZE, has_mask_fn) ==
    LET full_block_sum == Q_BLOCK_SIZE * KV_BLOCK_SIZE
    IN  [shape |-> mask_block_sum.shape,
         data |-> [k \in 1..Len(mask_block_sum.data) |->
                    IF has_mask_fn
                    THEN (IF mask_block_sum.data[k] = full_block_sum THEN 1 ELSE 0)
                    ELSE (IF mask_block_sum.data[k] > 0 THEN 1 ELSE 0)]]

\* A partial class that takes in the full blocks: <= for <.
PartialBlocksInclusive(mask_block_sum, KV_BLOCK_SIZE, Q_BLOCK_SIZE, has_mask_fn) ==
    LET full_block_sum == Q_BLOCK_SIZE * KV_BLOCK_SIZE
    IN  IF has_mask_fn
        THEN [shape |-> mask_block_sum.shape,
              data |-> [k \in 1..Len(mask_block_sum.data) |->
                         IF mask_block_sum.data[k] > 0
                            /\ mask_block_sum.data[k] <= full_block_sum THEN 1 ELSE 0]]
        ELSE None

PartialBlocks(mask_block_sum, KV_BLOCK_SIZE, Q_BLOCK_SIZE, has_mask_fn) ==
    LET full_block_sum == Q_BLOCK_SIZE * KV_BLOCK_SIZE
    IN  IF has_mask_fn
        THEN [shape |-> mask_block_sum.shape,
              data |-> [k \in 1..Len(mask_block_sum.data) |->
                         IF mask_block_sum.data[k] > 0
                            /\ mask_block_sum.data[k] < full_block_sum THEN 1 ELSE 0]]
        ELSE None

\* (full_blocks, partial_blocks), past the asserts.
_convert_mask_to_block_mask(mask, KV_BLOCK_SIZE, Q_BLOCK_SIZE, mask_fn) ==
    LET mask_block_sum == MaskBlockSum(mask, KV_BLOCK_SIZE, Q_BLOCK_SIZE)
    IN  [full |-> FullBlocks(mask_block_sum, KV_BLOCK_SIZE, Q_BLOCK_SIZE, mask_fn # None),
         partial |-> PartialBlocks(mask_block_sum, KV_BLOCK_SIZE, Q_BLOCK_SIZE,
                                   mask_fn # None)]

\* -------------------------------------------------- sparse block compressor
\* (kv_num_blocks, kv_indices, q_num_blocks, q_indices) of one tile grid.
create_sparse_block_from_block_mask_inner(block_mask) ==
    <<SumDim(block_mask, 3),
      ArgsortDim(block_mask, 3),
      SumDim(block_mask, 2),
      Permute0132(ArgsortDim(block_mask, 2))>>

\* ---------------------------------------------------------------- BlockMask
\* The rank test of BlockMask.__init__: it raises RuntimeError when it fails.
InitCheck(full_kv_indices, partial_kv_indices) ==
    ~(Dim(full_kv_indices) < 2 \/ Dim(partial_kv_indices) < 2)

BlockMask(full_kv_num_blocks, full_kv_indices, full_q_num_blocks, full_q_indices, partial_kv_num_blocks, partial_kv_indices, partial_q_num_blocks, partial_q_indices, KV_BLOCK_SIZE, Q_BLOCK_SIZE, mask_fn) ==
    [full_kv_num_blocks |-> full_kv_num_blocks,
     full_kv_indices |-> full_kv_indices,
     full_q_num_blocks |-> full_q_num_blocks,
     full_q_indices |-> full_q_indices,
     partial_kv_num_blocks |-> partial_kv_num_blocks,
     partial_kv_indices |-> partial_kv_indices,
     partial_q_num_blocks |-> partial_q_num_blocks,
     partial_q_indices |-> partial_q_indices,
     KV_BLOCK_SIZE |-> KV_BLOCK_SIZE,
     Q_BLOCK_SIZE |-> Q_BLOCK_SIZE,
     mask_fn |-> mask_fn]

\* Placeholder partial structures whose counts are 1.
PlaceholderPartialOnes ==
    <<Ones(<<1, 1, 1>>), Zeros(<<1, 1, 1, 1>>), Ones(<<1, 1, 1>>), Zeros(<<1, 1, 1, 1>>)>>

\* The placeholder partial structures of a build without a predicate.
PlaceholderPartial ==
    <<Zeros(<<1, 1, 1>>), Zeros(<<1, 1, 1, 1>>), Zeros(<<1, 1, 1>>), Zeros(<<1, 1, 1, 1>>)>>

_create_sparse_block_from_block_mask(blocks, mask_fn, KV_BLOCK_SIZE, Q_BLOCK_SIZE) ==
    LET full_bm == create_sparse_block_from_block_mask_inner(blocks.full)
        partial_bm == IF blocks.partial # None
                      THEN create_sparse_block_from_block_mask_inner(blocks.partial)
                      ELSE PlaceholderPartial
    IN  BlockMask(full_bm[1], full_bm[2], full_bm[3], full_bm[4],
                  partial_bm[1], partial_bm[2], partial_bm[3], partial_bm[4],
                  KV_BLOCK_SIZE, Q_BLOCK_SIZE, mask_fn)

\* _create_block_mask_inner, past the evaluation of fn: the aggregation with
\* the caller's block sizes, then the compression, to which the block sizes
\* are not handed on, so that it takes its defaults.
_create_block_mask_inner(fn, B, H, M, N, KV_BLOCK_SIZE, Q_BLOCK_SIZE, is_score_mod) ==
    LET mask_fn == IF is_score_mod THEN None ELSE fn
        mask_tensor == IF is_score_mod
                       THEN _create_mask_from_score_mod(fn, B, H, M, N)
                       ELSE _create_mask_from_mask_fn(fn, B, H, M, N)
        blocks == _convert_mask_to_block_mask(mask_tensor, KV_BLOCK_SIZE, Q_BLOCK_SIZE, mask_fn)
    IN  [blocks |-> blocks,
         block_mask |-> _create_sparse_block_from_block_mask(
                            blocks, mask_fn,
                            _DEFAULT_SPARSE_BLOCK_SIZE, _DEFAULT_SPARSE_BLOCK_SIZE)]

_create_empty_block_mask(q_len, kv_len) ==
    BlockMask(Ones(<<1, 1, 1>>), Zeros(<<1, 1, 1, 1>>),
              Ones(<<1, 1, 1>>), Zeros(<<1, 1, 1, 1>>),
              Zeros(<<1, 1, 1>>), Zeros(<<1, 1, 1, 1>>),
              Zeros(<<1, 1, 1>>), Zeros(<<1, 1, 1, 1>>),
              kv_len, q_len, None)

\* -------------------------------------------------------- derived queries
Last(s) == s[Len(s)]
AllButLast(s) == SubSeq(s, 1, Len(s) - 1)

\* BlockMask.shape reads shape[-1] of the two full-class count arrays.
ShapeDefined(bm) == Dim(bm.full_kv_num_blocks) >= 1 /\ Dim(bm.full_q_num_blocks) >= 1

Shape(bm) ==
    LET batch_dims == SubSeq(bm.full_kv_indices.shape, 1, Dim(bm.full_kv_indices) - 2)
        q_length == Last(bm.full_kv_num_blocks.shape) * bm.KV_BLOCK_SIZE
        kv_length == Last(bm.full_q_num_blocks.shape) * bm.Q_BLOCK_SIZE
    IN  batch_dims \o <<q_length, kv_length>>

Numel(bm) == Prod(Shape(bm))

RECURSIVE GCD(_, _)
GCD(a, b) == IF b = 0 THEN a ELSE GCD(b, a % b)

\* The fraction n / d, d > 0, in lowest terms.
Fraction(n, d) ==
    LET g == GCD(IF n < 0 THEN 0 - n ELSE n, d)
    IN  [num |-> n \div g, den |-> d \div g]

\* A sparsity that leaves the partial blocks out of the computed size.
SparsityFullOnly(bm) ==
    LET total_size == Numel(bm)
        computed_size == SumAll(bm.full_kv_num_blocks) * bm.KV_BLOCK_SIZE * bm.Q_BLOCK_SIZE
    IN  Fraction(100 * (total_size - computed_size), total_size)

\* BlockMask.sparsity, 100 * (1 - computed_size / total_size), as an exact
\* fraction in lowest terms.
Sparsity(bm) ==
    LET total_size == Numel(bm)
        computed_size == (SumAll(bm.full_kv_num_blocks) + SumAll(bm.partial_kv_num_blocks))
                            * bm.KV_BLOCK_SIZE * bm.Q_BLOCK_SIZE
    IN  Fraction(100 * (total_size - computed_size), total_size)

\* Broadcasting of two shapes, aligned at the last axis.
PadShape(s, n) == [i \in 1..n |-> IF i <= n - Len(s) THEN 1 ELSE s[i - (n - Len(s))]]

Max(a, b) == IF a >= b THEN a ELSE b

Broadcastable(s1, s2) ==
    LET n == Max(Len(s1), Len(s2))
    IN  \A i \in 1..n :
            PadShape(s1, n)[i] = PadShape(s2, n)[i]
            \/ PadShape(s1, n)[i] = 1 \/ PadShape(s2, n)[i] = 1

BroadcastShape(s1, s2) ==
    LET n == Max(Len(s1), Len(s2))
    IN  [i \in 1..n |-> Max(PadShape(s1, n)[i], PadShape(s2, n)[i])]

\* The element of t that index idx of a broadcast result reads.
BroadcastAt(t, idx) ==
    LET off == Len(idx) - Dim(t)
    IN  At(t, [i \in 1..Dim(t) |-> IF t.shape[i] = 1 THEN 0 ELSE idx[i + off]])

\* a + b
Add(a, b) ==
    LET shape == BroadcastShape(a.shape, b.shape)
    IN  [shape |-> shape,
         data |-> [k \in 1..Prod(shape) |->
                    LET idx == Unravel(shape, k - 1)
                    IN  BroadcastAt(a, idx) + BroadcastAt(b, idx)]]

\* to_dense on the layouts the builders produce: the summed counts have the
\* shape of the full-class counts, and the full-class forward indices that of
\* the batch dimensions followed by (num_rows, num_cols).  On other layouts the
\* vmapped scatter broadcasts or raises.
ToDenseRegular(bm) ==
    /\ ShapeDefined(bm)
    /\ Broadcastable(bm.full_kv_num_blocks.shape, bm.partial_kv_num_blocks.shape)
    /\ BroadcastShape(bm.full_kv_num_blocks.shape, bm.partial_kv_num_blocks.shape)
          = bm.full_kv_num_blocks.shape
    /\ bm.full_kv_indices.shape
          = bm.full_kv_num_blocks.shape \o <<Last(bm.full_q_num_blocks.shape)>>

\* BlockMask.to_dense: per row, 1 is written at the columns the first
\* kv_num_blocks entries of kv_indices name, the others going to the extra
\* column num_cols that is cut off.
ToDense(bm) ==
    LET num_cols == Last(bm.full_q_num_blocks.shape)
        kv_num_blocks == Add(bm.full_kv_num_blocks, bm.partial_kv_num_blocks)
        kv_indices == bm.full_kv_indices
        shape == bm.full_kv_num_blocks.shape \o <<num_cols>>
    IN  [shape |-> shape,
         data |-> [k \in 1..Prod(shape) |->
                    LET idx == Unravel(shape, k - 1)
                    IN  IF \E j \in 0..(num_cols - 1) :
                              /\ j < At(kv_num_blocks, AllButLast(idx))
                              /\ At(kv_indices, AllButLast(idx) \o <<j>>) = Last(idx)
                        THEN 1 ELSE 0]]

\* ------------------------------------------------------------- __getitem__
\* The arrays BlockMask.__getitem__ applies the index to.
IndexedArrays(bm) ==
    IF bm.mask_fn # None
    THEN <<bm.full_kv_num_blocks, bm.full_kv_indices, bm.full_q_num_blocks,
           bm.full_q_indices, bm.partial_kv_num_blocks, bm.partial_kv_indices,
           bm.partial_q_num_blocks, bm.partial_q_indices>>
    ELSE <<bm.full_kv_num_blocks, bm.full_kv_indices, bm.full_q_num_blocks,
           bm.full_q_indices>>

\* x[index] raises IndexError for one of them.
GetItemIndexError(bm, index) ==
    \E k \in 1..Len(IndexedArrays(bm)) : ~CanIndex(IndexedArrays(bm)[k], index)

\* The arguments the new BlockMask is constructed from.
GetItemArrays(bm, index) ==
    LET tensors == [k \in 1..Len(IndexedArrays(bm)) |-> IndexTensor(IndexedArrays(bm)[k], index)]
    IN  IF bm.mask_fn # None
        THEN tensors
        ELSE tensors \o <<bm.partial_kv_num_blocks, bm.partial_kv_indices,
                          bm.partial_q_num_blocks, bm.partial_q_indices>>

GetItemResult(bm, index) ==
    LET a == GetItemArrays(bm, index)
    IN  BlockMask(a[1], a[2], a[3], a[4], a[5], a[6], a[7], a[8],
                  bm.KV_BLOCK_SIZE, bm.Q_BLOCK_SIZE, bm.mask_fn)

\* ------------------------------------------------------------------ inputs
\* _no_mask: four required parameters, true everywhere.
_no_mask == [nreq |-> 4, nopt |-> 0, kind |-> "all", cells |-> {}, flip |-> FALSE]

\* The pairs of positive extents whose product is at most n.
Extents(n) == {p \in (1..n) \X (1..n) : p[1] * p[2] <= n}

\* The signatures a caller's function may have: <<required, optional>>.
Signatures == (3..MaxParams) \X (0..1)

\* Builds that differ in the mask: a predicate of four parameters or a score
\* modifier of five, true on any set of cells of an M x N plane.
MaskInputs ==
    UNION {UNION {
        {[fn |-> [nreq |-> a, nopt |-> 0, kind |-> "cells", cells |-> c, flip |-> f],
          B |-> bh[1], H |-> bh[2], M |-> mn[1], N |-> mn[2],
          KV_BLOCK_SIZE |-> blk[2], Q_BLOCK_SIZE |-> blk[1]] :
            a \in {4, 5}, c \in SUBSET ((0..(mn[1] - 1)) \X (0..(mn[2] - 1))),
            f \in BOOLEAN, blk \in Extents(MaxBlk)} :
        mn \in Extents(MaxCells)} : bh \in Extents(MaxPlanes)}

\* Builds that differ in the signature of fn, on a plane of one element.
SignatureInputs ==
    {[fn |-> [nreq |-> sig[1], nopt |-> sig[2], kind |-> "cells", cells |-> c,
              flip |-> FALSE],
      B |-> 1, H |-> 1, M |-> 1, N |-> 1,
      KV_BLOCK_SIZE |-> blk[2], Q_BLOCK_SIZE |-> blk[1]] :
        sig \in Signatures, c \in SUBSET {<<0, 0>>}, blk \in Extents(MaxBlk)}

SmallInputs == MaskInputs \cup SignatureInputs

\* The default block size on one batch and one head: extents of two blocks
\* and extents the block size does not divide.
ExampleInputs ==
    {[fn |-> [nreq |-> a, nopt |-> 0, kind |-> k, cells |-> {}, flip |-> FALSE],
      B |-> 1, H |-> 1, M |-> M, N |-> N,
      KV_BLOCK_SIZE |-> _DEFAULT_SPARSE_BLOCK_SIZE,
      Q_BLOCK_SIZE |-> _DEFAULT_SPARSE_BLOCK_SIZE] :
        a \in {4, 5}, k \in {"all", "none", "causal"},
        M \in {200, 2 * _DEFAULT_SPARSE_BLOCK_SIZE},
        N \in {200, 2 * _DEFAULT_SPARSE_BLOCK_SIZE}}

BuildInputs == SmallInputs \cup ExampleInputs

\* Lengths of the query and key of a call without a block mask.
SeqLens == (1..MaxSeq) \cup {3 * _DEFAULT_SPARSE_BLOCK_SIZE}

\* An all-zero array of rank r with every extent 1.
UnitZeros(r) == Zeros([i \in 1..r |-> 1])

\* ------------------------------------------------------------------- state
\* pc           "start", "returned" (the last call returned block_mask) or
\*              "raised" (it raised err)
\* call         the call the BlockMask at hand comes from, with its arguments
\* is_score_mod create_block_mask's classification of fn
\* blocks       the (full_blocks, partial_blocks) the aggregation returned
\* block_mask   the BlockMask the last call returned, None when it raised
\* err          the exception raised and the step that raised it
\* parent       the BlockMask the last __getitem__ was applied to
\* path         the indices applied by __getitem__ since the BlockMask was made
VARIABLES pc, call, is_score_mod, blocks, block_mask, err, parent, path

vars == <<pc, call, is_score_mod, blocks, block_mask, err, parent, path>>

NoErr == [type |-> "none", at |-> "none"]

NoCall ==
    [name |-> "none", fn |-> None, B |-> 0, H |-> 0, M |-> 0, N |-> 0,
     KV_BLOCK_SIZE |-> 0, Q_BLOCK_SIZE |-> 0, ranks |-> <<>>]

Init ==
    /\ pc = "start"
    /\ call = NoCall
    /\ is_score_mod = FALSE
    /\ blocks = None
    /\ block_mask = None
    /\ err = NoErr
    /\ parent = None
    /\ path = <<>>

Raise(type, at) ==
    /\ pc' = "raised"
    /\ err' = [type |-> type, at |-> at]
    /\ block_mask' = None

Return(bm) ==
    /\ pc' = "returned"
    /\ err' = NoErr
    /\ block_mask' = bm

\* create_block_mask(fn, B, H, M, N, device, KV_BLOCK_SIZE, Q_BLOCK_SIZE)
create_block_mask ==
    /\ pc = "start"
    /\ \E inp \in BuildInputs :
        LET sm == IsScoreMod(inp.fn)
            r == _create_block_mask_inner(inp.fn, inp.B, inp.H, inp.M, inp.N,
                                          inp.KV_BLOCK_SIZE, inp.Q_BLOCK_SIZE, sm)
        IN  /\ call' = [name |-> "create_block_mask", fn |-> inp.fn, B |-> inp.B,
                        H |-> inp.H, M |-> inp.M, N |-> inp.N,
                        KV_BLOCK_SIZE |-> inp.KV_BLOCK_SIZE,
                        Q_BLOCK_SIZE |-> inp.Q_BLOCK_SIZE, ranks |-> <<>>]
            /\ is_score_mod' = sm
            /\ IF ~CallBinds(inp.fn, IF sm THEN 5 ELSE 4)
               THEN Raise("TypeError", "evaluate") /\ blocks' = None
               ELSE IF ~ConvertAsserts(inp.M, inp.N, inp.KV_BLOCK_SIZE, inp.Q_BLOCK_SIZE)
               THEN Raise("AssertionError", "aggregate") /\ blocks' = None
               ELSE IF ~InitCheck(r.block_mask.full_kv_indices,
                                  r.block_mask.partial_kv_indices)
               THEN Raise("RuntimeError", "construct") /\ blocks' = r.blocks
               ELSE Return(r.block_mask) /\ blocks' = r.blocks
    /\ UNCHANGED <<parent, path>>

\* flex_attention without a block mask: _create_empty_block_mask(query, key, value)
create_empty_block_mask ==
    /\ pc = "start"
    /\ \E q_len \in SeqLens, kv_len \in SeqLens :
        LET bm == _create_empty_block_mask(q_len, kv_len)
        IN  /\ call' = [NoCall EXCEPT !.name = "_create_empty_block_mask",
                                      !.M = q_len, !.N = kv_len]
            /\ IF ~InitCheck(bm.full_kv_indices, bm.partial_kv_indices)
               THEN Raise("RuntimeError", "construct")
               ELSE Return(bm)
    /\ UNCHANGED <<is_score_mod, blocks, parent, path>>

\* BlockMask(...) called directly, on all-zero arrays of any ranks: ranks[1..4]
\* are those of full_kv_indices, full_q_indices, partial_kv_indices and
\* partial_q_indices, each count array one rank below its index array.
construct_block_mask ==
    /\ pc = "start"
    /\ \E ranks \in [1..4 -> 0..MaxRank], mask_fn \in {None, _no_mask} :
        LET cnt(r) == UnitZeros(IF r = 0 THEN 0 ELSE r - 1)
            bm == BlockMask(cnt(ranks[1]), UnitZeros(ranks[1]),
                            cnt(ranks[2]), UnitZeros(ranks[2]),
                            cnt(ranks[3]), UnitZeros(ranks[3]),
                            cnt(ranks[4]), UnitZeros(ranks[4]),
                            _DEFAULT_SPARSE_BLOCK_SIZE, _DEFAULT_SPARSE_BLOCK_SIZE,
                            mask_fn)
        IN  /\ call' = [NoCall EXCEPT !.name = "BlockMask", !.ranks = ranks]
            /\ IF ~InitCheck(bm.full_kv_indices, bm.partial_kv_indices)
               THEN Raise("RuntimeError", "construct")
               ELSE Return(bm)
    /\ UNCHANGED <<is_score_mod, blocks, parent, path>>

\* block_mask[index]
getitem ==
    /\ pc = "returned"
    /\ \E index \in {0, 1} :
        /\ parent' = block_mask
        /\ IF GetItemIndexError(block_mask, index)
           THEN Raise("IndexError", "index") /\ path' = path
           ELSE LET bm == GetItemResult(block_mask, index)
                IN  IF ~InitCheck(bm.full_kv_indices, bm.partial_kv_indices)
                    THEN Raise("RuntimeError", "construct") /\ path' = path
                    ELSE Return(bm) /\ path' = Append(path, index)
    /\ UNCHANGED <<call, is_score_mod, blocks>>

Next ==
    \/ create_block_mask
    \/ create_empty_block_mask
    \/ construct_block_mask
    \/ getitem

Spec == Init /\ [][Next]_vars

\* ------------------------------------------------------------- properties
\* The state right after create_block_mask returned or raised.
Built == call.name = "create_block_mask" /\ parent = None

BuiltOK == Built /\ pc = "returned"

\* The dense mask of the build at hand, element by element.
DenseMask(b, h, q, kv) == FnValue(call.fn, b, h, q, kv)

\* Tile (r, c) of plane (b, h) of the dense mask has a true element, the tiles
\* being those of the block sizes the build was called with.
TileNonEmpty(b, h, r, c) ==
    \E i \in 0..(call.Q_BLOCK_SIZE - 1), j \in 0..(call.KV_BLOCK_SIZE - 1) :
        DenseMask(b, h, r * call.Q_BLOCK_SIZE + i, c * call.KV_BLOCK_SIZE + j)

TileRows == call.M \div call.Q_BLOCK_SIZE
TileCols == call.N \div call.KV_BLOCK_SIZE

\* The tile grid of the dense mask: 1 for a non-empty tile, 0 for an empty one.
TileGrid ==
    LET shape == <<call.B, call.H, TileRows, TileCols>>
    IN  [shape |-> shape,
         data |-> [k \in 1..Prod(shape) |->
                    LET idx == Unravel(shape, k - 1)
                    IN  IF TileNonEmpty(idx[1], idx[2], idx[3], idx[4]) THEN 1 ELSE 0]]

\* C1: to_dense() of the BlockMask built from a dense mask (by a predicate or
\* by a score modifier) is the tile grid of that mask: 1 exactly at the
\* non-empty tiles.
C1_ToDenseIsTileGrid ==
    BuiltOK => ToDenseRegular(block_mask) /\ ToDense(block_mask) = TileGrid

\* C2: shape() is (batch dims, Q, KV) with Q the number of query tile rows
\* times Q_BLOCK_SIZE and KV the number of key tile rows times KV_BLOCK_SIZE,
\* whether the two block sizes are equal or not.
C2_ShapeUsesOwnBlockSize ==
    (pc = "returned" /\ ShapeDefined(block_mask)) =>
        Shape(block_mask) =
            SubSeq(block_mask.full_kv_indices.shape, 1, Dim(block_mask.full_kv_indices) - 2)
            \o <<Last(block_mask.full_kv_num_blocks.shape) * block_mask.Q_BLOCK_SIZE,
                 Last(block_mask.full_q_num_blocks.shape) * block_mask.KV_BLOCK_SIZE>>

\* The state right after _create_empty_block_mask returned.
EmptyMade == call.name = "_create_empty_block_mask" /\ parent = None /\ pc = "returned"

\* C3: the default BlockMask for query length q_len and key length k_len is
\* one fully present tile: full counts [1] in both views, partial counts 0,
\* shape (1, 1, q_len, k_len), sparsity 0.
C3_EmptyMaskCoversExtent ==
    EmptyMade =>
        /\ block_mask.full_kv_num_blocks.data = <<1>>
        /\ block_mask.full_q_num_blocks.data = <<1>>
        /\ SumAll(block_mask.partial_kv_num_blocks) = 0
        /\ SumAll(block_mask.partial_q_num_blocks) = 0
        /\ Shape(block_mask) = <<1, 1, call.M, call.N>>
        /\ Sparsity(block_mask).num = 0

\* C4: five required parameters make fn a score modifier (no predicate kept,
\* no partial class), four a mask predicate (predicate kept, partial class),
\* and with any other number the build fails instead of classifying fn.
C4_ArityClassifies ==
    Built =>
        /\ call.fn.nreq = 5 =>
              /\ is_score_mod
              /\ pc = "returned" => block_mask.mask_fn = None /\ blocks.partial = None
        /\ call.fn.nreq = 4 =>
              /\ ~is_score_mod
              /\ pc = "returned" => block_mask.mask_fn = call.fn /\ blocks.partial # None
        /\ call.fn.nreq \notin {4, 5} => pc = "raised" /\ block_mask = None

\* The dense mask evaluator returned a mask: the call of fn bound its arguments.
Evaluated == Built /\ CallBinds(call.fn, IF call.fn.nreq = 5 THEN 5 ELSE 4)

\* C5: a build whose query extent is not a multiple of the query block size,
\* or whose key extent is not one of the key block size, raises at the
\* aggregation step and returns no BlockMask; with both extents multiples the
\* build does not fail.
C5_IndivisibleExtentRaises ==
    Evaluated =>
        IF call.M % call.Q_BLOCK_SIZE # 0 \/ call.N % call.KV_BLOCK_SIZE # 0
        THEN pc = "raised" /\ err.at = "aggregate" /\ block_mask = None
        ELSE pc = "returned" /\ block_mask # None

\* A build of query extent 200 with block size 128 has raised at the aggregation.
C5_Witness ==
    /\ Evaluated
    /\ call.M = 200 /\ call.Q_BLOCK_SIZE = 128 /\ call.N % call.KV_BLOCK_SIZE = 0
    /\ pc = "raised" /\ err = [type |-> "AssertionError", at |-> "aggregate"]

\* Every element of the dense mask of the build is v.
DenseMaskAll(v) ==
    \A b \in 0..(call.B - 1), h \in 0..(call.H - 1),
       q \in 0..(call.M - 1), kv \in 0..(call.N - 1) : DenseMask(b, h, q, kv) = v

\* C6: for a built BlockMask, sparsity() is
\* 100 * (1 - computed_tile_count * Qblk * KVblk / element_count()), the tile
\* count being the sum of the full and partial forward counts; it lies in
\* [0, 100], is 0 for an all-true dense mask and 100 for an all-false one.
C6_SparsityOfBuilt ==
    BuiltOK =>
        LET s == Sparsity(block_mask)
            tiles == SumAll(block_mask.full_kv_num_blocks)
                        + SumAll(block_mask.partial_kv_num_blocks)
            elems == Prod(Shape(block_mask))
        IN  /\ elems > 0
            /\ s = Fraction(100 * (elems - tiles * block_mask.Q_BLOCK_SIZE
                                                 * block_mask.KV_BLOCK_SIZE), elems)
            /\ 0 <= s.num /\ s.num <= 100 * s.den
            /\ DenseMaskAll(TRUE) => s.num = 0
            /\ DenseMaskAll(FALSE) => s.num = 100 * s.den

\* The all-true mask of shape (1, 1, 256, 256) with block size 128 was built:
\* full row counts [2, 2], no partial block, sparsity 0.
C6_Witness ==
    /\ BuiltOK
    /\ call.fn.kind = "all" /\ call.M = 256 /\ call.N = 256
    /\ call.Q_BLOCK_SIZE = 128 /\ call.KV_BLOCK_SIZE = 128
    /\ block_mask.full_kv_num_blocks.data = <<2, 2>>
    /\ SumAll(block_mask.partial_kv_num_blocks) = 0
    /\ Sparsity(block_mask).num = 0

\* C7: for a BlockMask built over (B, H, M, N) and 0 <= i < B, mask[i] keeps
\* the block sizes and the predicate, has shape (H, M, N), and holds every
\* array the selection covers sliced by i: all eight with a predicate kept,
\* the four full-class ones otherwise.
C7_SubIndexOfBuilt ==
    (pc = "returned" /\ call.name = "create_block_mask" /\ call.fn.nreq \in {4, 5}
        /\ Len(path) = 1) =>
        /\ block_mask.KV_BLOCK_SIZE = parent.KV_BLOCK_SIZE
        /\ block_mask.Q_BLOCK_SIZE = parent.Q_BLOCK_SIZE
        /\ block_mask.mask_fn = parent.mask_fn
        /\ Shape(block_mask) = <<call.H, call.M, call.N>>
        /\ block_mask.full_kv_num_blocks = IndexTensor(parent.full_kv_num_blocks, path[1])
        /\ block_mask.full_kv_indices = IndexTensor(parent.full_kv_indices, path[1])
        /\ block_mask.full_q_num_blocks = IndexTensor(parent.full_q_num_blocks, path[1])
        /\ block_mask.full_q_indices = IndexTensor(parent.full_q_indices, path[1])
        /\ parent.mask_fn # None =>
              /\ block_mask.partial_kv_num_blocks
                    = IndexTensor(parent.partial_kv_num_blocks, path[1])
              /\ block_mask.partial_kv_indices
                    = IndexTensor(parent.partial_kv_indices, path[1])
              /\ block_mask.partial_q_num_blocks
                    = IndexTensor(parent.partial_q_num_blocks, path[1])
              /\ block_mask.partial_q_indices
                    = IndexTensor(parent.partial_q_indices, path[1])

\* C8: the constructor fails when any of the four index arrays has rank below
\* 2, so every BlockMask that exists has all four of rank >= 2.
C8_AllIndexRanksChecked ==
    /\ (call.name = "BlockMask" /\ parent = None /\ \E k \in 1..4 : call.ranks[k] < 2)
          => pc = "raised" /\ block_mask = None
    /\ pc = "returned" =>
          /\ Dim(block_mask.full_kv_indices) >= 2
          /\ Dim(block_mask.full_q_indices) >= 2
          /\ Dim(block_mask.partial_kv_indices) >= 2
          /\ Dim(block_mask.partial_q_indices) >= 2

\* The build of the causal predicate on (1, 1, 256, 256) with block size 128.
CausalExample ==
    /\ BuiltOK
    /\ call.fn.kind = "causal" /\ call.fn.nreq = 4
    /\ call.B = 1 /\ call.H = 1 /\ call.M = 256 /\ call.N = 256
    /\ call.Q_BLOCK_SIZE = 128 /\ call.KV_BLOCK_SIZE = 128

\* The number of tiles of the build's grids that are FULL, PARTIAL and EMPTY.
NumFull == SumAll(blocks.full)
NumPartial == IF blocks.partial = None THEN 0 ELSE SumAll(blocks.partial)
NumEmpty == Prod(blocks.full.shape) - NumFull - NumPartial

\* C9: the causal predicate (q >= kv) on (1, 1, 256, 256) with block size 128
\* gives 4 tiles, one FULL, two PARTIAL (the two on the diagonal) and one
\* EMPTY, and sparsity() is 25.
C9_CausalTiles ==
    CausalExample =>
        /\ Prod(blocks.full.shape) = 4
        /\ NumFull = 1 /\ NumPartial = 2 /\ NumEmpty = 1
        /\ Sparsity(block_mask) = [num |-> 25, den |-> 1]

\* C9 as the specification states it: exactly one FULL, one PARTIAL and one
\* EMPTY tile, and sparsity() 25.
C9_AsStated ==
    CausalExample =>
        /\ NumFull = 1 /\ NumPartial = 1 /\ NumEmpty = 1
        /\ Sparsity(block_mask) = [num |-> 25, den |-> 1]

\* The causal example was built, and its diagonal tiles are the partial ones.
C9_Witness ==
    /\ CausalExample
    /\ blocks.full.data = <<0, 0, 1, 0>>
    /\ blocks.partial.data = <<1, 0, 0, 1>>

\* The elements of a finite set of integers in ascending order.
RECURSIVE Ascending(_)
Ascending(S) ==
    IF S = {} THEN <<>>
    ELSE LET m == CHOOSE x \in S : \A y \in S : x <= y
         IN  <<m>> \o Ascending(S \ {m})

\* The 0-based positions of a sequence of flags that hold v.
Positions(flags, v) == {j - 1 : j \in {k \in 1..Len(flags) : flags[k] = v}}

\* Count and index sequence are the compression of the lane of flags: the
\* count is the number of set tiles, the first count entries are the set
\* tiles ascending, and the rest the unset tiles ascending.
Compresses(count, indices, flags) ==
    /\ count = Cardinality(Positions(flags, 1))
    /\ SubSeq(indices, 1, count) = Ascending(Positions(flags, 1))
    /\ SubSeq(indices, count + 1, Len(indices)) = Ascending(Positions(flags, 0))
    /\ {indices[j] : j \in 1..Len(indices)} = 0..(Len(flags) - 1)

\* The four arrays c compress the grid g in the forward and transposed views.
CompressesGrid(c, g) ==
    /\ \A b \in 0..(g.shape[1] - 1), h \in 0..(g.shape[2] - 1) :
        /\ \A r \in 0..(g.shape[3] - 1) :
              Compresses(At(c[1], <<b, h, r>>),
                         [j \in 1..g.shape[4] |-> At(c[2], <<b, h, r, j - 1>>)],
                         [j \in 1..g.shape[4] |-> At(g, <<b, h, r, j - 1>>)])
        /\ \A k \in 0..(g.shape[4] - 1) :
              Compresses(At(c[3], <<b, h, k>>),
                         [j \in 1..g.shape[3] |-> At(c[4], <<b, h, k, j - 1>>)],
                         [j \in 1..g.shape[3] |-> At(g, <<b, h, j - 1, k>>)])
    /\ c[2].shape = g.shape
    /\ c[4].shape = <<g.shape[1], g.shape[2], g.shape[4], g.shape[3]>>

\* C10: for every tile grid compressed, in both views, the count of a row is
\* the number of its set tiles, the first count indices are the set tiles in
\* ascending order, and the whole index sequence is a permutation of 0..C-1
\* whose rest is the unset tiles in ascending order.
C10_CompressionOrder ==
    BuiltOK =>
        /\ CompressesGrid(<<block_mask.full_kv_num_blocks, block_mask.full_kv_indices,
                            block_mask.full_q_num_blocks, block_mask.full_q_indices>>,
                          blocks.full)
        /\ blocks.partial # None =>
              CompressesGrid(<<block_mask.partial_kv_num_blocks,
                               block_mask.partial_kv_indices,
                               block_mask.partial_q_num_blocks,
                               block_mask.partial_q_indices>>,
                             blocks.partial)

\* A grid was compressed in which a set tile follows an unset one, in a row
\* and in a column: the sort moved it to the front in both views.
C10_Witness ==
    /\ BuiltOK
    /\ blocks.full.shape = <<1, 1, 2, 2>>
    /\ blocks.full.data = <<0, 0, 0, 1>>
    /\ block_mask.full_kv_indices.data = <<0, 1, 1, 0>>
    /\ block_mask.full_q_indices.data = <<0, 1, 1, 0>>
    /\ block_mask.full_kv_num_blocks.data = <<0, 1>>

\* The number S of true elements of tile (r, c) of plane (b, h) of the dense
\* mask, the tiles being those of the block sizes the build was called with.
TileCount(b, h, r, c) ==
    Cardinality({e \in (0..(call.Q_BLOCK_SIZE - 1)) \X (0..(call.KV_BLOCK_SIZE - 1)) :
        DenseMask(b, h, r * call.Q_BLOCK_SIZE + e[1], c * call.KV_BLOCK_SIZE + e[2])})

\* The multi-indices of the tiles of the build.
Tiles == (0..(call.B - 1)) \X (0..(call.H - 1)) \X (0..(TileRows - 1)) \X (0..(TileCols - 1))

\* C11: with a predicate kept, a tile with S true elements is FULL iff
\* S = Qblk * KVblk, PARTIAL iff 0 < S < Qblk * KVblk and EMPTY otherwise;
\* with a score modifier every tile with S > 0 is FULL, there is no partial
\* grid, and the BlockMask holds all-zero partial arrays of extents 1 (counts
\* of shape 1 x 1 x 1, all 0) and no predicate.
C11_TileClasses ==
    BuiltOK =>
        /\ blocks.full.shape = <<call.B, call.H, TileRows, TileCols>>
        /\ IF ~is_score_mod
           THEN /\ block_mask.mask_fn = call.fn
                /\ blocks.partial # None
                /\ blocks.partial.shape = blocks.full.shape
                /\ \A t \in Tiles :
                      LET S == TileCount(t[1], t[2], t[3], t[4])
                          full_block_sum == call.Q_BLOCK_SIZE * call.KV_BLOCK_SIZE
                      IN  /\ At(blocks.full, t) = 1 <=> S = full_block_sum
                          /\ At(blocks.partial, t) = 1 <=> (0 < S /\ S < full_block_sum)
                          /\ (At(blocks.full, t) = 0 /\ At(blocks.partial, t) = 0) <=> S = 0
                          /\ At(blocks.full, t) \in {0, 1} /\ At(blocks.partial, t) \in {0, 1}
           ELSE /\ \A t \in Tiles :
                      /\ At(blocks.full, t) = 1 <=> TileCount(t[1], t[2], t[3], t[4]) > 0
                      /\ At(blocks.full, t) \in {0, 1}
                /\ blocks.partial = None
                /\ block_mask.partial_kv_num_blocks = Zeros(<<1, 1, 1>>)
                /\ block_mask.partial_q_num_blocks = Zeros(<<1, 1, 1>>)
                /\ block_mask.partial_kv_indices = Zeros(<<1, 1, 1, 1>>)
                /\ block_mask.partial_q_indices = Zeros(<<1, 1, 1, 1>>)
                /\ block_mask.mask_fn = None

\* A predicate was aggregated over two planes of two tiles that hold a FULL,
\* a PARTIAL and an EMPTY tile: S = 2, 1 in the first plane, 0, 1 in the
\* second, with blocks of 2 elements.
C11_Witness ==
    /\ BuiltOK /\ ~is_score_mod
    /\ call.Q_BLOCK_SIZE * call.KV_BLOCK_SIZE = 2
    /\ Prod(blocks.full.shape) = 4
    /\ blocks.full.data = <<1, 0, 0, 0>>
    /\ blocks.partial.data = <<0, 1, 0, 1>>

\* The tiles a structure lists in lane idx (a row of the forward view, a
\* column of the transposed one): the first count entries of its indices,
\* arrays of extent 1 being broadcast over the planes and lanes.
Listed(num_blocks, indices, idx) ==
    {BroadcastAt(indices, idx \o <<j>>) : j \in 0..(BroadcastAt(num_blocks, idx) - 1)}

\* C12: in every row of the forward view and every column of the transposed
\* view of a built BlockMask, the tiles the full-class structure lists and
\* those the partial-class structure lists are disjoint, and together they
\* are the non-empty tiles of the dense mask in that row or column.
C12_ClassesPartitionNonEmpty ==
    BuiltOK =>
        \A b \in 0..(call.B - 1), h \in 0..(call.H - 1) :
            /\ \A r \in 0..(TileRows - 1) :
                  LET F == Listed(block_mask.full_kv_num_blocks,
                                  block_mask.full_kv_indices, <<b, h, r>>)
                      P == Listed(block_mask.partial_kv_num_blocks,
                                  block_mask.partial_kv_indices, <<b, h, r>>)
                  IN  /\ F \cap P = {}
                      /\ F \cup P = {c \in 0..(TileCols - 1) : TileNonEmpty(b, h, r, c)}
            /\ \A c \in 0..(TileCols - 1) :
                  LET F == Listed(block_mask.full_q_num_blocks,
                                  block_mask.full_q_indices, <<b, h, c>>)
                      P == Listed(block_mask.partial_q_num_blocks,
                                  block_mask.partial_q_indices, <<b, h, c>>)
                  IN  /\ F \cap P = {}
                      /\ F \cup P = {r \in 0..(TileRows - 1) : TileNonEmpty(b, h, r, c)}

\* A predicate was built whose one row of two tiles is [PARTIAL, FULL]: the
\* full class lists tile 1, the partial class tile 0.
C12_Witness ==
    /\ BuiltOK /\ ~is_score_mod
    /\ call.B = 1 /\ call.H = 1 /\ TileRows = 1 /\ TileCols = 2
    /\ Listed(block_mask.full_kv_num_blocks, block_mask.full_kv_indices, <<0, 0, 0>>) = {1}
    /\ Listed(block_mask.partial_kv_num_blocks, block_mask.partial_kv_indices, <<0, 0, 0>>) = {0}
    /\ Listed(block_mask.full_q_num_blocks, block_mask.full_q_indices, <<0, 0, 1>>) = {0}
    /\ Listed(block_mask.partial_q_num_blocks, block_mask.partial_q_indices, <<0, 0, 0>>) = {0}

\* What BlockMask.shape reads, taken from the arrays of one class: the batch
\* dimensions of the forward indices, the number of tile rows (last extent of
\* the forward counts) and of tile columns (last extent of the transposed
\* counts).
ClassShape(kv_num_blocks, kv_indices, q_num_blocks) ==
    [batch_dims |-> SubSeq(kv_indices.shape, 1, Dim(kv_indices) - 2),
     rows |-> Last(kv_num_blocks.shape),
     cols |-> Last(q_num_blocks.shape)]

\* A BlockMask that create_block_mask returned for a predicate of four
\* parameters or a score modifier of five, or one sub-indexed from it.
FromBuilder ==
    pc = "returned" /\ call.name = "create_block_mask" /\ call.fn.nreq \in {4, 5}

\* C13: for a BlockMask the builder returned, on the predicate path or the
\* score-modifier path, and for every BlockMask sub-indexed from one, the
\* partial-class arrays give the same batch dimensions, number of tile rows
\* and number of tile columns as the full-class arrays.
C13_ClassShapesAgree ==
    FromBuilder =>
        ClassShape(block_mask.partial_kv_num_blocks, block_mask.partial_kv_indices,
                   block_mask.partial_q_num_blocks)
        = ClassShape(block_mask.full_kv_num_blocks, block_mask.full_kv_indices,
                     block_mask.full_q_num_blocks)

\* C14: the BlockMask create_block_mask returns for extents (B, H, M, N) and
\* block sizes Qblk and KVblk, whichever values dividing M and N they are,
\* records Q_BLOCK_SIZE = Qblk and KV_BLOCK_SIZE = KVblk, the sizes the tiles
\* were aggregated with, and its shape is (B, H, M, N).
C14_BlockSizesRecorded ==
    (BuiltOK /\ call.fn.nreq \in {4, 5}) =>
        /\ block_mask.Q_BLOCK_SIZE = call.Q_BLOCK_SIZE
        /\ block_mask.KV_BLOCK_SIZE = call.KV_BLOCK_SIZE
        /\ blocks.full.shape = <<call.B, call.H, call.M \div block_mask.Q_BLOCK_SIZE,
                                 call.N \div block_mask.KV_BLOCK_SIZE>>
        /\ Shape(block_mask) = <<call.B, call.H, call.M, call.N>>
====
